---- MODULE Spec2Model ----
(***************************************************************************)
(* Model of the in-memory ledger of src/src/main.rs: Account (deposit,     *)
(* withdraw), Bank (add_account, transfer, total_balance) and the caller   *)
(* that owns unregistered accounts before moving them into the bank.       *)
(*                                                                         *)
(* Balances and amounts are i64.  TLC's integers are 32 bits wide, so an   *)
(* integer is written as three decimal limbs <<h, m, l>> standing for      *)
(* h * 10^18 + m * 10^9 + l with m, l in 0 .. 10^9 - 1 (floor form: the    *)
(* sign lives in h).  An i64 is a limb triple within I64_MIN .. I64_MAX.   *)
(***************************************************************************)
EXTENDS Integers, Sequences, FiniteSets, TLC

\* ------------------------------------------------------------ bounds ----
MaxId == 2        \* account ids the caller uses: 1 .. MaxId
MaxCalls == 3     \* number of deposit / withdraw / transfer calls in a run

\* ------------------------------------------------- integer arithmetic ----
LimbBase == 1000000000

\* carry the low limbs into the high ones
Norm(t) ==
    LET l  == t[3] % LimbBase
        c1 == t[3] \div LimbBase
        m  == (t[2] + c1) % LimbBase
        c2 == (t[2] + c1) \div LimbBase
    IN  <<t[1] + c2, m, l>>

FromInt(n) == Norm(<<0, 0, n>>)
Zero == <<0, 0, 0>>

Add(a, b) == Norm(<<a[1] + b[1], a[2] + b[2], a[3] + b[3]>>)
Sub(a, b) == Norm(<<a[1] - b[1], a[2] - b[2], a[3] - b[3]>>)

Less(a, b) ==
    \/ a[1] < b[1]
    \/ a[1] = b[1] /\ a[2] < b[2]
    \/ a[1] = b[1] /\ a[2] = b[2] /\ a[3] < b[3]
Leq(a, b) == a = b \/ Less(a, b)

\* i64::MAX = 9223372036854775807, i64::MIN = -9223372036854775808
I64_MAX == <<9, 223372036, 854775807>>
I64_MIN == Sub(Sub(Zero, I64_MAX), FromInt(1))
InI64(v) == Leq(I64_MIN, v) /\ Leq(v, I64_MAX)

\* 2^64 = 18446744073709551616
TwoPow64 == <<18, 446744073, 709551616>>
\* two's-complement wrap of a value at most one period outside the range
WrapI64(v) ==
    IF Less(I64_MAX, v) THEN Sub(v, TwoPow64)
    ELSE IF Less(v, I64_MIN) THEN Add(v, TwoPow64)
    ELSE v

\* i64::checked_add: None on overflow
CheckedAdd(a, b) ==
    LET s == Add(a, b) IN
    IF InI64(s) THEN [some |-> TRUE, val |-> s] ELSE [some |-> FALSE, val |-> Zero]

\* ------------------------------------------------------------ inputs ----
Ids == 1 .. MaxId
Holders == {"Giorgi"}
BothHolders == {"Giorgi", "QioJI"}
Amounts == {I64_MIN, FromInt(-1), Zero, FromInt(1), I64_MAX}

\* ----------------------------------------------------------- Account ----
NoAccount == [id |-> 0, holder |-> "", balance |-> Zero]

\* Account::new
NewAccount(id, holder) == [id |-> id, holder |-> holder, balance |-> Zero]

\* Deposit without the sign check
DepositNoNegCheck(acct, amount) ==
    LET s == CheckedAdd(acct.balance, amount) IN
    IF ~s.some
    THEN [acct |-> acct, res |-> "AmountOverflow", ret |-> Zero]
    ELSE [acct |-> [acct EXCEPT !.balance = s.val], res |-> "Ok", ret |-> s.val]

\* Deposit that adds with wrap-around instead of checked_add
DepositWrapping(acct, amount) ==
    IF Less(amount, Zero)
    THEN [acct |-> acct, res |-> "NegativeAmount", ret |-> Zero]
    ELSE LET v == WrapI64(Add(acct.balance, amount)) IN
         [acct |-> [acct EXCEPT !.balance = v], res |-> "Ok", ret |-> v]

\* Deposit that returns the amount instead of the new balance
DepositReturnsAmount(acct, amount) ==
    IF Less(amount, Zero)
    THEN [acct |-> acct, res |-> "NegativeAmount", ret |-> Zero]
    ELSE LET s == CheckedAdd(acct.balance, amount) IN
         IF ~s.some
         THEN [acct |-> acct, res |-> "AmountOverflow", ret |-> Zero]
         ELSE [acct |-> [acct EXCEPT !.balance = s.val], res |-> "Ok", ret |-> amount]

\* Deposit that assigns the amount instead of adding it
DepositAssigns(acct, amount) ==
    IF Less(amount, Zero)
    THEN [acct |-> acct, res |-> "NegativeAmount", ret |-> Zero]
    ELSE LET s == CheckedAdd(acct.balance, amount) IN
         IF ~s.some
         THEN [acct |-> acct, res |-> "AmountOverflow", ret |-> Zero]
         ELSE [acct |-> [acct EXCEPT !.balance = amount], res |-> "Ok", ret |-> amount]

\* Account::deposit: the account after the call and the Result
Deposit(acct, amount) ==
    IF Less(amount, Zero)
    THEN [acct |-> acct, res |-> "NegativeAmount", ret |-> Zero]
    ELSE LET s == CheckedAdd(acct.balance, amount) IN
         IF ~s.some
         THEN [acct |-> acct, res |-> "AmountOverflow", ret |-> Zero]
         ELSE [acct |-> [acct EXCEPT !.balance = s.val], res |-> "Ok", ret |-> s.val]

\* Withdraw without the funds check
WithdrawNoFundsCheck(acct, amount) ==
    IF Less(amount, Zero)
    THEN [acct |-> acct, res |-> "NegativeAmount", ret |-> Zero]
    ELSE LET d == WrapI64(Sub(acct.balance, amount)) IN
         [acct |-> [acct EXCEPT !.balance = d], res |-> "Ok", ret |-> d]

\* Withdraw without the sign check
WithdrawNoNegCheck(acct, amount) ==
    IF Less(acct.balance, amount)
    THEN [acct |-> acct, res |-> "InsufficientFunds", ret |-> Zero]
    ELSE LET d == WrapI64(Sub(acct.balance, amount)) IN
         [acct |-> [acct EXCEPT !.balance = d], res |-> "Ok", ret |-> d]

\* Withdraw that refuses to empty the account (<= in the funds check)
WithdrawStrict(acct, amount) ==
    IF Less(amount, Zero)
    THEN [acct |-> acct, res |-> "NegativeAmount", ret |-> Zero]
    ELSE IF Leq(acct.balance, amount)
    THEN [acct |-> acct, res |-> "InsufficientFunds", ret |-> Zero]
    ELSE LET d == WrapI64(Sub(acct.balance, amount)) IN
         [acct |-> [acct EXCEPT !.balance = d], res |-> "Ok", ret |-> d]

\* Account::withdraw
Withdraw(acct, amount) ==
    IF Less(amount, Zero)
    THEN [acct |-> acct, res |-> "NegativeAmount", ret |-> Zero]
    ELSE IF Less(acct.balance, amount)
    THEN [acct |-> acct, res |-> "InsufficientFunds", ret |-> Zero]
    ELSE LET d == WrapI64(Sub(acct.balance, amount)) IN
         [acct |-> [acct EXCEPT !.balance = d], res |-> "Ok", ret |-> d]

\* -------------------------------------------------------------- Bank ----
\* the two mutations of a transfer, once every check has passed
Move(accts, from_id, to_id, amount) ==
    LET w  == Withdraw(accts[from_id], amount)
        a1 == [accts EXCEPT ![from_id] = w.acct]
    IN  IF w.res # "Ok" THEN [accts |-> a1, res |-> w.res]
        ELSE LET d  == Deposit(a1[to_id], amount)
                 a2 == [a1 EXCEPT ![to_id] = d.acct]
             IN  [accts |-> a2, res |-> d.res]

\* Transfer that forgets to debit the source
TransferSkipsWithdraw(accts, from_id, to_id, amount) ==
    IF Less(amount, Zero) THEN [accts |-> accts, res |-> "NegativeAmount"]
    ELSE IF from_id \notin DOMAIN accts THEN [accts |-> accts, res |-> "AccountNotFound"]
    ELSE IF to_id \notin DOMAIN accts THEN [accts |-> accts, res |-> "AccountNotFound"]
    ELSE IF from_id = to_id THEN [accts |-> accts, res |-> "Ok"]
    ELSE IF Less(accts[from_id].balance, amount)
    THEN [accts |-> accts, res |-> "InsufficientFunds"]
    ELSE LET d == Deposit(accts[to_id], amount)
         IN  [accts |-> [accts EXCEPT ![to_id] = d.acct], res |-> d.res]

\* Transfer that restores the source when the deposit fails
TransferRollback(accts, from_id, to_id, amount) ==
    IF Less(amount, Zero) THEN [accts |-> accts, res |-> "NegativeAmount"]
    ELSE IF from_id \notin DOMAIN accts THEN [accts |-> accts, res |-> "AccountNotFound"]
    ELSE IF to_id \notin DOMAIN accts THEN [accts |-> accts, res |-> "AccountNotFound"]
    ELSE IF from_id = to_id THEN [accts |-> accts, res |-> "Ok"]
    ELSE IF Less(accts[from_id].balance, amount)
    THEN [accts |-> accts, res |-> "InsufficientFunds"]
    ELSE LET m == Move(accts, from_id, to_id, amount)
         IN  IF m.res = "Ok" THEN m ELSE [accts |-> accts, res |-> m.res]

\* Transfer that looks the accounts up before it checks the amount's sign
TransferLookupFirst(accts, from_id, to_id, amount) ==
    IF from_id \notin DOMAIN accts THEN [accts |-> accts, res |-> "AccountNotFound"]
    ELSE IF to_id \notin DOMAIN accts THEN [accts |-> accts, res |-> "AccountNotFound"]
    ELSE IF Less(amount, Zero) THEN [accts |-> accts, res |-> "NegativeAmount"]
    ELSE IF from_id = to_id THEN [accts |-> accts, res |-> "Ok"]
    ELSE IF Less(accts[from_id].balance, amount)
    THEN [accts |-> accts, res |-> "InsufficientFunds"]
    ELSE Move(accts, from_id, to_id, amount)

\* Transfer that looks the destination up only after debiting the source
TransferLateToCheck(accts, from_id, to_id, amount) ==
    IF Less(amount, Zero) THEN [accts |-> accts, res |-> "NegativeAmount"]
    ELSE IF from_id \notin DOMAIN accts THEN [accts |-> accts, res |-> "AccountNotFound"]
    ELSE IF from_id = to_id THEN [accts |-> accts, res |-> "Ok"]
    ELSE IF Less(accts[from_id].balance, amount)
    THEN [accts |-> accts, res |-> "InsufficientFunds"]
    ELSE LET w  == Withdraw(accts[from_id], amount)
             a1 == [accts EXCEPT ![from_id] = w.acct]
         IN  IF w.res # "Ok" THEN [accts |-> a1, res |-> w.res]
             ELSE IF to_id \notin DOMAIN accts THEN [accts |-> a1, res |-> "AccountNotFound"]
             ELSE LET d == Deposit(a1[to_id], amount)
                  IN  [accts |-> [a1 EXCEPT ![to_id] = d.acct], res |-> d.res]

\* Transfer without the pre-check that credits the destination first
TransferDepositFirst(accts, from_id, to_id, amount) ==
    IF Less(amount, Zero) THEN [accts |-> accts, res |-> "NegativeAmount"]
    ELSE IF from_id \notin DOMAIN accts THEN [accts |-> accts, res |-> "AccountNotFound"]
    ELSE IF to_id \notin DOMAIN accts THEN [accts |-> accts, res |-> "AccountNotFound"]
    ELSE IF from_id = to_id THEN [accts |-> accts, res |-> "Ok"]
    ELSE LET d  == Deposit(accts[to_id], amount)
             a1 == [accts EXCEPT ![to_id] = d.acct]
         IN  IF d.res # "Ok" THEN [accts |-> a1, res |-> d.res]
             ELSE LET w == Withdraw(a1[from_id], amount)
                  IN  [accts |-> [a1 EXCEPT ![from_id] = w.acct], res |-> w.res]

\* Transfer without the same-account return that works on copies of the two
\* accounts taken before either is mutated, and writes both back
TransferStaleCopies(accts, from_id, to_id, amount) ==
    IF Less(amount, Zero) THEN [accts |-> accts, res |-> "NegativeAmount"]
    ELSE IF from_id \notin DOMAIN accts THEN [accts |-> accts, res |-> "AccountNotFound"]
    ELSE IF to_id \notin DOMAIN accts THEN [accts |-> accts, res |-> "AccountNotFound"]
    ELSE IF Less(accts[from_id].balance, amount)
    THEN [accts |-> accts, res |-> "InsufficientFunds"]
    ELSE LET w  == Withdraw(accts[from_id], amount)
             d  == Deposit(accts[to_id], amount)
             a1 == [accts EXCEPT ![from_id] = w.acct]
         IN  IF w.res # "Ok" THEN [accts |-> a1, res |-> w.res]
             ELSE [accts |-> [a1 EXCEPT ![to_id] = d.acct], res |-> d.res]

\* Transfer that checks the funds before it compares the two ids
TransferFundsCheckFirst(accts, from_id, to_id, amount) ==
    IF Less(amount, Zero) THEN [accts |-> accts, res |-> "NegativeAmount"]
    ELSE IF from_id \notin DOMAIN accts THEN [accts |-> accts, res |-> "AccountNotFound"]
    ELSE IF to_id \notin DOMAIN accts THEN [accts |-> accts, res |-> "AccountNotFound"]
    ELSE IF Less(accts[from_id].balance, amount)
    THEN [accts |-> accts, res |-> "InsufficientFunds"]
    ELSE IF from_id = to_id THEN [accts |-> accts, res |-> "Ok"]
    ELSE Move(accts, from_id, to_id, amount)

\* Bank::transfer on the map accts (a function from the registered ids to
\* accounts): the map after the call and the Result
Transfer(accts, from_id, to_id, amount) ==
    IF Less(amount, Zero) THEN [accts |-> accts, res |-> "NegativeAmount"]
    ELSE IF from_id \notin DOMAIN accts THEN [accts |-> accts, res |-> "AccountNotFound"]
    ELSE IF to_id \notin DOMAIN accts THEN [accts |-> accts, res |-> "AccountNotFound"]
    ELSE IF from_id = to_id THEN [accts |-> accts, res |-> "Ok"]
    ELSE IF Less(accts[from_id].balance, amount)
    THEN [accts |-> accts, res |-> "InsufficientFunds"]
    ELSE Move(accts, from_id, to_id, amount)

\* Insert that keeps the account already registered under the id
InsertKeepsExisting(accts, account) ==
    [i \in DOMAIN accts \cup {account.id} |->
        IF i \in DOMAIN accts THEN accts[i] ELSE account]

\* Insert that, for an id already registered, only takes over the balance
InsertKeepsHolder(accts, account) ==
    [i \in DOMAIN accts \cup {account.id} |->
        IF i # account.id THEN accts[i]
        ELSE IF i \in DOMAIN accts THEN [accts[i] EXCEPT !.balance = account.balance]
        ELSE account]

\* HashMap::insert(account.id, account)
Insert(accts, account) ==
    [i \in DOMAIN accts \cup {account.id} |->
        IF i = account.id THEN account ELSE accts[i]]

\* the arithmetic sum of the balances of the accounts with ids in S
RECURSIVE SumOver(_, _)
SumOver(accts, S) ==
    IF S = {} THEN Zero
    ELSE LET i == CHOOSE x \in S : TRUE
         IN  Add(accts[i].balance, SumOver(accts, S \ {i}))

SumBalances(accts) == SumOver(accts, DOMAIN accts)

\* Bank::total_balance: Iterator::sum over the values in the map's iteration
\* order.  An overflowing addition panics where overflow checks are compiled
\* in and wraps where they are not; the set of outcomes over both builds and
\* every iteration order.
TotalBalance(accts) ==
    {[panic |-> FALSE, val |-> WrapI64(SumBalances(accts))]}
    \cup {[panic |-> TRUE, val |-> Zero] :
            S \in {T \in SUBSET DOMAIN accts : ~InI64(SumOver(accts, T))}}

\* "{:.2}" of balance as f64 / 100.0.  Below 100 * 2^46 the f64 quotient is
\* within 2^-8 of balance / 100, so the two printed decimals are the exact
\* dollars and cents; from there on (and for a negative balance) the printed
\* digits are those of a rounded f64 and are left open (exact = FALSE).
ExactRenderBound == <<0, 7036874, 417766400>>
RenderDollars(balance) ==
    IF Leq(Zero, balance) /\ Less(balance, ExactRenderBound)
    THEN [exact |-> TRUE,
          dollars |-> <<0, balance[2] \div 100,
                        (balance[2] % 100) * (LimbBase \div 100) + balance[3] \div 100>>,
          cents |-> balance[3] % 100]
    ELSE [exact |-> FALSE, dollars |-> Zero, cents |-> 0]

\* Account::summary, the Display of an Account: its id, holder and balance
AccountSummary(acct) ==
    [id |-> acct.id, holder |-> acct.holder, amount |-> RenderDollars(acct.balance)]

\* the orders in which HashMap::values can yield the accounts
IterationOrders(accts) ==
    LET n == Cardinality(DOMAIN accts) IN
    {o \in [1 .. n -> DOMAIN accts] : \A i, j \in 1 .. n : i # j => o[i] # o[j]}

\* Bank::summary for one iteration order: the lines that are joined with "\n"
BankSummary(accts, order) ==
    [k \in 1 .. Len(order) |-> AccountSummary(accts[order[k]])]

\* Bank::get_account
GetAccount(accts, id) ==
    IF id \in DOMAIN accts THEN [res |-> "Some", ret |-> accts[id]]
    ELSE [res |-> "None", ret |-> NoAccount]

\* ------------------------------------------------------------- state ----
\* The caller owns one account at a time that is not registered yet (as main
\* owns account1 until bank.add_account(account1) moves it): accounts are
\* independent values, so every ledger can be built one account at a time.
VARIABLES
    accounts,     \* Bank.accounts: registered id -> Account
    local,        \* the caller's unregistered account, or NoAccount
    calls,        \* deposit / withdraw / transfer calls made so far
    lastOp,       \* the call that produced this state
    lastArgs,     \* its arguments
    lastRes,      \* its Result: "Ok" or the AccountError
    lastRet,      \* the value inside Ok(..), where there is one
    preAccounts,  \* accounts before the call
    preLocal,     \* local before the call
    script        \* main's position and the amounts it has passed so far

vars == <<accounts, local, calls, lastOp, lastArgs, lastRes, lastRet,
          preAccounts, preLocal, script>>

NoArgs == [id |-> 0, from_id |-> 0, to_id |-> 0, amount |-> Zero, holder |-> ""]

\* Bank::new(), nothing constructed yet
Init ==
    /\ accounts = <<>>
    /\ local = NoAccount
    /\ calls = 0
    /\ lastOp = "init"
    /\ lastArgs = NoArgs
    /\ lastRes = "Ok"
    /\ lastRet = Zero
    /\ preAccounts = <<>>
    /\ preLocal = NoAccount
    /\ script = [pc |-> 0, inputs |-> <<>>]

\* what every call leaves behind
Note(op, args, res, ret) ==
    /\ lastOp' = op
    /\ lastArgs' = args
    /\ lastRes' = res
    /\ lastRet' = ret
    /\ preAccounts' = accounts
    /\ preLocal' = local

\* a call made outside main's script
Record(op, args, res, ret) ==
    /\ Note(op, args, res, ret)
    /\ UNCHANGED script

\* a panic ends the program
Running == lastRes # "panic"

\* let mut account = Account::new(id, holder)
DoNew ==
    \E id \in Ids, h \in Holders :
        /\ Running
        /\ local = NoAccount
        /\ local' = NewAccount(id, h)
        /\ Record("new", [NoArgs EXCEPT !.id = id, !.holder = h], "Ok", Zero)
        /\ UNCHANGED <<accounts, calls>>

\* account.deposit(amount) on the account the caller still owns
DoDeposit ==
    \E amount \in Amounts :
        /\ Running
        /\ calls < MaxCalls
        /\ local # NoAccount
        /\ LET r == Deposit(local, amount) IN
             /\ local' = r.acct
             /\ Record("deposit", [NoArgs EXCEPT !.id = local.id, !.amount = amount],
                       r.res, r.ret)
        /\ calls' = calls + 1
        /\ UNCHANGED accounts

\* account.withdraw(amount) on the account the caller still owns
DoWithdraw ==
    \E amount \in Amounts :
        /\ Running
        /\ calls < MaxCalls
        /\ local # NoAccount
        /\ LET r == Withdraw(local, amount) IN
             /\ local' = r.acct
             /\ Record("withdraw", [NoArgs EXCEPT !.id = local.id, !.amount = amount],
                       r.res, r.ret)
        /\ calls' = calls + 1
        /\ UNCHANGED accounts

\* bank.add_account(account): the account is moved out of the caller's variable
DoAddAccount ==
    /\ Running
    /\ local # NoAccount
    /\ accounts' = Insert(accounts, local)
    /\ local' = NoAccount
    /\ Record("add_account", [NoArgs EXCEPT !.id = local.id], "Ok", Zero)
    /\ UNCHANGED calls

\* bank.get_account_mut(id) is Some(account); account.deposit(amount)
DoBankDeposit ==
    \E id \in Ids, amount \in Amounts :
        /\ Running
        /\ calls < MaxCalls
        /\ id \in DOMAIN accounts
        /\ LET r == Deposit(accounts[id], amount) IN
             /\ accounts' = [accounts EXCEPT ![id] = r.acct]
             /\ Record("bank_deposit", [NoArgs EXCEPT !.id = id, !.amount = amount],
                       r.res, r.ret)
        /\ calls' = calls + 1
        /\ UNCHANGED local

\* bank.get_account_mut(id) is Some(account); account.withdraw(amount)
DoBankWithdraw ==
    \E id \in Ids, amount \in Amounts :
        /\ Running
        /\ calls < MaxCalls
        /\ id \in DOMAIN accounts
        /\ LET r == Withdraw(accounts[id], amount) IN
             /\ accounts' = [accounts EXCEPT ![id] = r.acct]
             /\ Record("bank_withdraw", [NoArgs EXCEPT !.id = id, !.amount = amount],
                       r.res, r.ret)
        /\ calls' = calls + 1
        /\ UNCHANGED local

\* bank.transfer(from_id, to_id, amount)
DoTransfer ==
    \E from_id \in Ids, to_id \in Ids, amount \in Amounts :
        /\ Running
        /\ calls < MaxCalls
        /\ LET r == Transfer(accounts, from_id, to_id, amount) IN
             /\ accounts' = r.accts
             /\ Record("transfer",
                       [NoArgs EXCEPT !.from_id = from_id, !.to_id = to_id, !.amount = amount],
                       r.res, Zero)
        /\ calls' = calls + 1
        /\ UNCHANGED local

\* bank.get_account(id)
DoGetAccount ==
    \E id \in Ids :
        /\ Running
        /\ LET r == GetAccount(accounts, id) IN
             Record("get_account", [NoArgs EXCEPT !.id = id], r.res, r.ret)
        /\ UNCHANGED <<accounts, local, calls>>

\* bank.total_balance()
DoTotalBalance ==
    \E o \in TotalBalance(accounts) :
        /\ Running
        /\ Record("total_balance", NoArgs, IF o.panic THEN "panic" ELSE "Ok", o.val)
        /\ UNCHANGED <<accounts, local, calls>>

\* bank.summary()
DoSummary ==
    \E order \in IterationOrders(accounts) :
        /\ Running
        /\ Record("summary", NoArgs, "Ok", BankSummary(accounts, order))
        /\ UNCHANGED <<accounts, local, calls>>

Next ==
    \/ DoNew
    \/ DoDeposit
    \/ DoWithdraw
    \/ DoAddAccount
    \/ DoBankDeposit
    \/ DoBankWithdraw
    \/ DoTransfer
    \/ DoGetAccount
    \/ DoTotalBalance
    \/ DoSummary

Spec == Init /\ [][Next]_vars

\* --------------------------------------------------------- registration ----
\* Accounts of either holder are built and registered, also under an id that
\* is registered already.

\* let mut account = Account::new(id, holder), for either holder of main
DoNewAnyHolder ==
    \E id \in Ids, h \in BothHolders :
        /\ Running
        /\ local = NoAccount
        /\ local' = NewAccount(id, h)
        /\ Record("new", [NoArgs EXCEPT !.id = id, !.holder = h], "Ok", Zero)
        /\ UNCHANGED <<accounts, calls>>

NextRegister ==
    \/ DoNewAnyHolder
    \/ DoDeposit
    \/ DoAddAccount
    \/ DoGetAccount

SpecRegister == Init /\ [][NextRegister]_vars

\* ------------------------------------------------------------------ main ----
\* main, statement by statement, with the four amounts it passes drawn from
\* the amounts it uses.  The caller owns one unregistered account at a time,
\* so account2 is built once account1 is registered; each ? returns from
\* main on an Err (pc = Failed).
DemoAmounts == {FromInt(50000), FromInt(25000), FromInt(30000), FromInt(10000)}
Failed == -1
Done == 10

\* position pc is left for position next, or for Failed on an Err
Advance(next, res, amounts) ==
    script' = [pc |-> IF res = "Ok" THEN next ELSE Failed,
               inputs |-> script.inputs \o amounts]

\* let mut account1 = Account::new(1, String::from("Giorgi"));
MainNew1 ==
    /\ script.pc = 0
    /\ local' = NewAccount(1, "Giorgi")
    /\ Note("new", [NoArgs EXCEPT !.id = 1, !.holder = "Giorgi"], "Ok", Zero)
    /\ Advance(1, "Ok", <<>>)
    /\ UNCHANGED <<accounts, calls>>

\* account1.deposit(50000)?;
MainDeposit1 ==
    \E amount \in DemoAmounts :
        /\ script.pc = 1
        /\ LET r == Deposit(local, amount) IN
             /\ local' = r.acct
             /\ Note("deposit", [NoArgs EXCEPT !.id = local.id, !.amount = amount],
                     r.res, r.ret)
             /\ Advance(2, r.res, <<amount>>)
        /\ UNCHANGED <<accounts, calls>>

\* account1.withdraw(25000)?;
MainWithdraw1 ==
    \E amount \in DemoAmounts :
        /\ script.pc = 2
        /\ LET r == Withdraw(local, amount) IN
             /\ local' = r.acct
             /\ Note("withdraw", [NoArgs EXCEPT !.id = local.id, !.amount = amount],
                     r.res, r.ret)
             /\ Advance(3, r.res, <<amount>>)
        /\ UNCHANGED <<accounts, calls>>

\* bank.add_account(account1);
MainAdd1 ==
    /\ script.pc = 3
    /\ accounts' = Insert(accounts, local)
    /\ local' = NoAccount
    /\ Note("add_account", [NoArgs EXCEPT !.id = local.id], "Ok", Zero)
    /\ Advance(4, "Ok", <<>>)
    /\ UNCHANGED calls

\* let mut account2 = Account::new(2, String::from("QioJI"));
MainNew2 ==
    /\ script.pc = 4
    /\ local' = NewAccount(2, "QioJI")
    /\ Note("new", [NoArgs EXCEPT !.id = 2, !.holder = "QioJI"], "Ok", Zero)
    /\ Advance(5, "Ok", <<>>)
    /\ UNCHANGED <<accounts, calls>>

\* account2.deposit(30000)?;
MainDeposit2 ==
    \E amount \in DemoAmounts :
        /\ script.pc = 5
        /\ LET r == Deposit(local, amount) IN
             /\ local' = r.acct
             /\ Note("deposit", [NoArgs EXCEPT !.id = local.id, !.amount = amount],
                     r.res, r.ret)
             /\ Advance(6, r.res, <<amount>>)
        /\ UNCHANGED <<accounts, calls>>

\* bank.add_account(account2);
MainAdd2 ==
    /\ script.pc = 6
    /\ accounts' = Insert(accounts, local)
    /\ local' = NoAccount
    /\ Note("add_account", [NoArgs EXCEPT !.id = local.id], "Ok", Zero)
    /\ Advance(7, "Ok", <<>>)
    /\ UNCHANGED calls

\* bank.transfer(1, 2, 10000)?;
MainTransfer ==
    \E amount \in DemoAmounts :
        /\ script.pc = 7
        /\ LET r == Transfer(accounts, 1, 2, amount) IN
             /\ accounts' = r.accts
             /\ Note("transfer",
                     [NoArgs EXCEPT !.from_id = 1, !.to_id = 2, !.amount = amount],
                     r.res, Zero)
             /\ Advance(8, r.res, <<amount>>)
        /\ UNCHANGED <<local, calls>>

\* println!("{}", bank.summary());
MainSummary ==
    \E order \in IterationOrders(accounts) :
        /\ script.pc = 8
        /\ Note("summary", NoArgs, "Ok", BankSummary(accounts, order))
        /\ Advance(9, "Ok", <<>>)
        /\ UNCHANGED <<accounts, local, calls>>

\* println!("{}", bank);  the Display of Bank calls total_balance()
MainTotal ==
    \E o \in TotalBalance(accounts) :
        /\ script.pc = 9
        /\ Note("total_balance", NoArgs, IF o.panic THEN "panic" ELSE "Ok", o.val)
        /\ Advance(Done, IF o.panic THEN "panic" ELSE "Ok", <<>>)
        /\ UNCHANGED <<accounts, local, calls>>

NextMain ==
    \/ MainNew1
    \/ MainDeposit1
    \/ MainWithdraw1
    \/ MainAdd1
    \/ MainNew2
    \/ MainDeposit2
    \/ MainAdd2
    \/ MainTransfer
    \/ MainSummary
    \/ MainTotal

SpecMain == Init /\ [][NextMain]_vars

\* ------------------------------------------------- reading the last call ----
IsTransfer == lastOp = "transfer"
IsDeposit == lastOp \in {"deposit", "bank_deposit"}
IsWithdraw == lastOp \in {"withdraw", "bank_withdraw"}
OnLocal == lastOp \in {"deposit", "withdraw"}

\* the account a deposit / withdraw call was made on, before and after it
AcctBefore == IF OnLocal THEN preLocal ELSE preAccounts[lastArgs.id]
AcctAfter == IF OnLocal THEN local ELSE accounts[lastArgs.id]

Registered(id) == id \in DOMAIN preAccounts
NothingMutated == accounts = preAccounts /\ local = preLocal

\* ------------------------------------------------------------------ C1 ----
\* C1: in every reachable state every account's balance, registered or still
\* owned by the caller, is >= 0.
BalancesNonNegative ==
    /\ \A i \in DOMAIN accounts : Leq(Zero, accounts[i].balance)
    /\ Leq(Zero, local.balance)

\* a withdrawal of a positive amount that emptied the account
C1_Witness ==
    /\ IsWithdraw /\ lastRes = "Ok"
    /\ Less(Zero, lastArgs.amount)
    /\ AcctAfter.balance = Zero

\* ------------------------------------------------------------------ C2 ----
\* C2: whatever the outcome of a transfer, the sum of the registered
\* accounts' balances after the call equals the sum before it.
TransferPreservesTotal ==
    IsTransfer => SumBalances(accounts) = SumBalances(preAccounts)

\* ------------------------------------------------------------------ C3 ----
\* C3: a transfer(a, b, amount) with a # b that returns Ok leaves
\* balance(a) = before - amount, balance(b) = before + amount and
\* total_balance() unchanged.
SuccessfulTransferMovesAmount ==
    (IsTransfer /\ lastRes = "Ok" /\ lastArgs.from_id # lastArgs.to_id) =>
        LET a == lastArgs.from_id
            b == lastArgs.to_id
        IN  /\ accounts[a].balance = Sub(preAccounts[a].balance, lastArgs.amount)
            /\ accounts[b].balance = Add(preAccounts[b].balance, lastArgs.amount)
            /\ TotalBalance(accounts) = TotalBalance(preAccounts)

C3_Witness ==
    /\ IsTransfer /\ lastRes = "Ok"
    /\ lastArgs.from_id # lastArgs.to_id
    /\ Less(Zero, lastArgs.amount)
    /\ Less(Zero, preAccounts[lastArgs.to_id].balance)

\* ------------------------------------------------------------------ C4 ----
\* C4: for distinct registered a and b with 0 <= amount <= balance(a) and
\* balance(b) + amount above i64::MAX, transfer(a, b, amount) returns
\* AmountOverflow, leaves balance(b) unchanged and leaves balance(a) debited
\* by amount.
OverflowCase ==
    /\ IsTransfer
    /\ lastArgs.from_id # lastArgs.to_id
    /\ Registered(lastArgs.from_id) /\ Registered(lastArgs.to_id)
    /\ Leq(Zero, lastArgs.amount)
    /\ Leq(lastArgs.amount, preAccounts[lastArgs.from_id].balance)
    /\ Less(I64_MAX, Add(preAccounts[lastArgs.to_id].balance, lastArgs.amount))

OverflowLeavesSourceDebited ==
    OverflowCase =>
        /\ lastRes = "AmountOverflow"
        /\ accounts[lastArgs.to_id] = preAccounts[lastArgs.to_id]
        /\ accounts[lastArgs.from_id].balance =
               Sub(preAccounts[lastArgs.from_id].balance, lastArgs.amount)

C4_Witness == OverflowCase /\ Less(Zero, lastArgs.amount)

\* ------------------------------------------------------------------ C5 ----
\* C5: transfer with amount < 0 fails with NegativeAmount and changes no
\* balance, for every pair of ids, registered or not, equal or not.
NegativeTransferRejected ==
    (IsTransfer /\ Less(lastArgs.amount, Zero)) =>
        lastRes = "NegativeAmount" /\ NothingMutated

\* a negative amount with an unregistered source
C5_Witness ==
    /\ IsTransfer /\ Less(lastArgs.amount, Zero)
    /\ ~Registered(lastArgs.from_id)
    /\ preAccounts # <<>>

\* ------------------------------------------------------------------ C6 ----
\* C6: transfer with amount >= 0 and from_id or to_id not registered fails
\* with AccountNotFound and mutates no account.
UnknownAccountRejected ==
    (/\ IsTransfer /\ Leq(Zero, lastArgs.amount)
     /\ (~Registered(lastArgs.from_id) \/ ~Registered(lastArgs.to_id))) =>
        lastRes = "AccountNotFound" /\ NothingMutated

\* the source is registered and holds enough, the destination is missing
C6_Witness ==
    /\ IsTransfer /\ Less(Zero, lastArgs.amount)
    /\ Registered(lastArgs.from_id) /\ ~Registered(lastArgs.to_id)
    /\ Leq(lastArgs.amount, preAccounts[lastArgs.from_id].balance)

\* ------------------------------------------------------------------ C7 ----
\* C7: transfer between distinct registered accounts with amount >= 0 and
\* balance(a) < amount fails with InsufficientFunds and mutates no account.
InsufficientCase ==
    /\ IsTransfer
    /\ lastArgs.from_id # lastArgs.to_id
    /\ Registered(lastArgs.from_id) /\ Registered(lastArgs.to_id)
    /\ Leq(Zero, lastArgs.amount)
    /\ Less(preAccounts[lastArgs.from_id].balance, lastArgs.amount)

InsufficientTransferRejected ==
    InsufficientCase => lastRes = "InsufficientFunds" /\ NothingMutated

\* the source holds something, but less than the amount
C7_Witness == InsufficientCase /\ Less(Zero, preAccounts[lastArgs.from_id].balance)

\* ------------------------------------------------------------------ C8 ----
\* C8: transfer(x, x, amount) for a registered x and 0 <= amount <= balance(x)
\* returns Ok and leaves every balance as it was.
SelfCase ==
    /\ IsTransfer
    /\ lastArgs.from_id = lastArgs.to_id
    /\ Registered(lastArgs.from_id)
    /\ Leq(Zero, lastArgs.amount)
    /\ Leq(lastArgs.amount, preAccounts[lastArgs.from_id].balance)

SelfTransferIsNoOp ==
    SelfCase => lastRes = "Ok" /\ NothingMutated

C8_Witness == SelfCase /\ Less(Zero, lastArgs.amount)

\* ------------------------------------------------------------------ C9 ----
\* C9: withdraw(amount) with amount greater than the current balance fails
\* with InsufficientFunds and leaves the balance unchanged.
OverdraftRejected ==
    (IsWithdraw /\ Less(AcctBefore.balance, lastArgs.amount)) =>
        lastRes = "InsufficientFunds" /\ AcctAfter = AcctBefore /\ NothingMutated

\* an overdraft of an account that holds something
C9_Witness ==
    /\ IsWithdraw /\ Less(AcctBefore.balance, lastArgs.amount)
    /\ Less(Zero, AcctBefore.balance)

\* ----------------------------------------------------------------- C10 ----
\* C10: deposit(amount) and withdraw(amount) with amount < 0 fail with
\* NegativeAmount and leave the balance unchanged, for every balance.
NegativeAmountRejected ==
    ((IsDeposit \/ IsWithdraw) /\ Less(lastArgs.amount, Zero)) =>
        lastRes = "NegativeAmount" /\ AcctAfter = AcctBefore /\ NothingMutated

C10_Witness ==
    IsDeposit /\ Less(lastArgs.amount, Zero) /\ Less(Zero, AcctBefore.balance)
C10_WitnessWithdraw ==
    IsWithdraw /\ Less(lastArgs.amount, Zero) /\ Less(Zero, AcctBefore.balance)

\* ----------------------------------------------------------------- C11 ----
\* C11: deposit(amount) with amount >= 0 and balance + amount above i64::MAX
\* fails with AmountOverflow and leaves the balance unchanged.
DepositOverflowCase ==
    /\ IsDeposit
    /\ Leq(Zero, lastArgs.amount)
    /\ Less(I64_MAX, Add(AcctBefore.balance, lastArgs.amount))

DepositOverflowRejected ==
    DepositOverflowCase =>
        lastRes = "AmountOverflow" /\ AcctAfter = AcctBefore /\ NothingMutated

\* the overflow is by one: the balance is 1 and the amount i64::MAX, or the reverse
C11_Witness ==
    /\ DepositOverflowCase
    /\ Add(AcctBefore.balance, lastArgs.amount) = Add(I64_MAX, FromInt(1))

\* ----------------------------------------------------------------- C12 ----
\* C12: deposit(amount) with amount >= 0 and balance + amount within the
\* i64 range sets the balance to balance + amount and returns Ok(new balance).
DepositInRangeCase ==
    /\ IsDeposit
    /\ Leq(Zero, lastArgs.amount)
    /\ Leq(Add(AcctBefore.balance, lastArgs.amount), I64_MAX)

DepositAddsAmount ==
    DepositInRangeCase =>
        /\ lastRes = "Ok"
        /\ AcctAfter = [AcctBefore EXCEPT
                           !.balance = Add(AcctBefore.balance, lastArgs.amount)]
        /\ lastRet = AcctAfter.balance

\* a positive amount onto a positive balance
C12_Witness ==
    /\ DepositInRangeCase
    /\ Less(Zero, lastArgs.amount)
    /\ Less(Zero, AcctBefore.balance)

\* ----------------------------------------------------------------- C13 ----
\* C13: withdraw(amount) with 0 <= amount <= balance, amount = balance and
\* amount = 0 included, returns Ok(balance - amount) and sets the balance to it.
WithdrawCoveredCase ==
    /\ IsWithdraw
    /\ Leq(Zero, lastArgs.amount)
    /\ Leq(lastArgs.amount, AcctBefore.balance)

WithdrawSubtractsAmount ==
    WithdrawCoveredCase =>
        /\ lastRes = "Ok"
        /\ AcctAfter = [AcctBefore EXCEPT
                           !.balance = Sub(AcctBefore.balance, lastArgs.amount)]
        /\ lastRet = AcctAfter.balance

\* the whole of a positive balance is withdrawn
C13_Witness ==
    /\ WithdrawCoveredCase
    /\ Less(Zero, lastArgs.amount)
    /\ lastArgs.amount = AcctBefore.balance
C13_WitnessZero ==
    WithdrawCoveredCase /\ lastArgs.amount = Zero /\ Less(Zero, AcctBefore.balance)

\* ----------------------------------------------------------------- C19 ----
\* C19: transfer(x, x, amount) for a registered x and any amount >= 0, also
\* one above x's balance, returns Ok, never InsufficientFunds, and changes no
\* balance.
SelfAnyAmountCase ==
    /\ IsTransfer
    /\ lastArgs.from_id = lastArgs.to_id
    /\ Registered(lastArgs.from_id)
    /\ Leq(Zero, lastArgs.amount)

SelfTransferSkipsFundsCheck ==
    SelfAnyAmountCase => lastRes = "Ok" /\ NothingMutated

\* the amount exceeds the balance
C19_Witness ==
    /\ SelfAnyAmountCase
    /\ Less(preAccounts[lastArgs.from_id].balance, lastArgs.amount)

\* ----------------------------------------------------------------- C20 ----
\* C20: once the pre-check of a transfer has passed, the delegated withdraw
\* returns no error; a transfer that returns an error after mutating a
\* balance returns AmountOverflow; a transfer that returns NegativeAmount,
\* AccountNotFound or InsufficientFunds has mutated nothing.
PreCheckPassed ==
    /\ IsTransfer
    /\ Leq(Zero, lastArgs.amount)
    /\ Registered(lastArgs.from_id) /\ Registered(lastArgs.to_id)
    /\ lastArgs.from_id # lastArgs.to_id
    /\ ~Less(preAccounts[lastArgs.from_id].balance, lastArgs.amount)

OnlyOverflowAfterMutation ==
    IsTransfer =>
        /\ PreCheckPassed =>
               Withdraw(preAccounts[lastArgs.from_id], lastArgs.amount).res = "Ok"
        /\ (lastRes # "Ok" /\ ~NothingMutated) => lastRes = "AmountOverflow"
        /\ lastRes \in {"NegativeAmount", "AccountNotFound", "InsufficientFunds"} =>
               NothingMutated

\* the pre-check passed with the whole balance asked for
C20_Witness ==
    /\ PreCheckPassed
    /\ Less(Zero, lastArgs.amount)
    /\ lastArgs.amount = preAccounts[lastArgs.from_id].balance

\* ----------------------------------------------------------------- C15 ----
IsRead == lastOp \in {"get_account", "total_balance", "summary"}
IsAdd == lastOp = "add_account"

\* C15 as stated: add_account, get_account, total_balance and summary leave
\* the sum of the registered accounts' balances unchanged.
OnlyCallsChangeSum ==
    (IsAdd \/ IsRead) => SumBalances(accounts) = SumBalances(preAccounts)

\* the balance registered under the id before the call, 0 where there is none
ReplacedBalance(id) == IF Registered(id) THEN preAccounts[id].balance ELSE Zero

\* C15 as amended: get_account, total_balance and summary leave the sum of
\* the registered accounts' balances unchanged (they mutate nothing), and
\* add_account changes it by the added account's balance minus the balance
\* of the account it replaces.
ReadsKeepSumAddShiftsIt ==
    /\ IsRead => NothingMutated /\ SumBalances(accounts) = SumBalances(preAccounts)
    /\ IsAdd =>
           SumBalances(accounts) =
               Sub(Add(SumBalances(preAccounts), preLocal.balance),
                   ReplacedBalance(lastArgs.id))

\* a funded account replaces a registered one that holds another balance
C15_Witness ==
    /\ IsAdd /\ Registered(lastArgs.id)
    /\ Less(Zero, preLocal.balance)
    /\ Less(Zero, preAccounts[lastArgs.id].balance)
    /\ preLocal.balance # preAccounts[lastArgs.id].balance

\* ----------------------------------------------------------------- C17 ----
\* C17: total_balance() has no error case: in every reachable ledger state it
\* returns the arithmetic sum of the registered accounts' balances and
\* mutates nothing.
TotalBalanceIsExactSum ==
    lastOp = "total_balance" =>
        /\ lastRes = "Ok"
        /\ lastRet = SumBalances(preAccounts)
        /\ NothingMutated

\* ----------------------------------------------------------------- C14 ----
\* two deposit calls in a row on the same account: this state is the one
\* after the first, the next state the one after the second
ConsecutiveDeposits ==
    \/ lastOp = "deposit" /\ lastOp' = "deposit"
    \/ /\ lastOp = "bank_deposit" /\ lastOp' = "bank_deposit"
       /\ lastArgs.id = lastArgs'.id

\* C14: for non-negative a and b and a starting balance with
\* balance + a + b within the i64 range, deposit(a) followed by deposit(b)
\* both succeed and leave the balance that the single deposit(a + b) leaves.
TwoDepositsStep ==
    (/\ ConsecutiveDeposits
     /\ Leq(Zero, lastArgs.amount) /\ Leq(Zero, lastArgs'.amount)
     /\ Leq(Add(AcctBefore.balance, Add(lastArgs.amount, lastArgs'.amount)), I64_MAX)) =>
        LET once == Deposit(AcctBefore, Add(lastArgs.amount, lastArgs'.amount)) IN
        /\ lastRes = "Ok" /\ lastRes' = "Ok"
        /\ once.res = "Ok"
        /\ AcctAfter'.balance = once.acct.balance

TwoDepositsAsOne == [][TwoDepositsStep]_vars

\* a deposit of 1 brought the balance to 2: it followed another deposit of 1
C14_Witness ==
    /\ IsDeposit /\ lastRes = "Ok"
    /\ lastArgs.amount = FromInt(1)
    /\ AcctAfter.balance = FromInt(2)

\* ----------------------------------------------------------------- C16 ----
\* C16: add_account(account) signals no error; the account is registered
\* under its id as it is, in place of the account registered there before, if
\* any (whose holder and balance are gone); the other accounts stay; no id is
\* held by two registered accounts, and a re-add leaves the number of
\* registered ids as it was.
AddAccountReplaces ==
    /\ \A i \in DOMAIN accounts : accounts[i].id = i
    /\ IsAdd =>
           /\ lastRes = "Ok"
           /\ lastArgs.id = preLocal.id
           /\ DOMAIN accounts = DOMAIN preAccounts \cup {preLocal.id}
           /\ accounts[preLocal.id] = preLocal
           /\ \A i \in DOMAIN preAccounts \ {preLocal.id} : accounts[i] = preAccounts[i]
           /\ Registered(preLocal.id) =>
                  Cardinality(DOMAIN accounts) = Cardinality(DOMAIN preAccounts)

\* the account replaced had the other holder and another balance
C16_Witness ==
    /\ IsAdd /\ Registered(lastArgs.id)
    /\ preAccounts[lastArgs.id].holder # preLocal.holder
    /\ Less(Zero, preAccounts[lastArgs.id].balance)
    /\ preAccounts[lastArgs.id].balance # preLocal.balance
    /\ Cardinality(DOMAIN preAccounts) = 2

\* ----------------------------------------------------------------- C18 ----
\* the amounts main passes: deposit 50000, withdraw 25000, deposit 30000,
\* transfer 10000
DemoInputs == <<FromInt(50000), FromInt(25000), FromInt(30000), FromInt(10000)>>
OnDemoRun ==
    /\ Len(script.inputs) <= Len(DemoInputs)
    /\ \A k \in 1 .. Len(script.inputs) : script.inputs[k] = DemoInputs[k]

\* C18: with the amounts 50000, 25000, 30000 and 10000 every call of main
\* succeeds, and after the transfer account 1 holds 15000, account 2 holds
\* 40000 and the ledger total is 55000.
DemoScenario ==
    /\ OnDemoRun => script.pc # Failed /\ lastRes = "Ok"
    /\ (OnDemoRun /\ script.pc >= 8) =>
           /\ accounts[1].balance = FromInt(15000)
           /\ accounts[2].balance = FromInt(40000)
           /\ TotalBalance(accounts) = {[panic |-> FALSE, val |-> FromInt(55000)]}
    /\ (OnDemoRun /\ script.pc = Done) => lastRet = FromInt(55000)

C18_Witness == script.pc = Done /\ script.inputs = DemoInputs

====
